---- MODULE Spec2Model ----
(***************************************************************************)
(* A model of paddlets/models/anomaly/dl/dlinear_ad.py: the DLinear        *)
(* anomaly detector (moving_avg, series_decomp, _DLinearModule and the     *)
(* DLinear_AD fit / predict life cycle).                                   *)
(*                                                                         *)
(* Numbers.  Tensors hold float32 values in the program.  The model uses   *)
(* exact fixed-point arithmetic: every tensor element is an integer        *)
(* multiple of 1/Scale, and Scale is a multiple of every kernel size, so   *)
(* the arithmetic mean of a window of inputs is again an exact integer.    *)
(* Floating-point rounding is not modelled.                                *)
(***************************************************************************)
EXTENDS Integers, Sequences, FiniteSets, TLC

VARIABLES
    \* ---- DLinear_AD (life cycle) ----
    init_threshold,   \* the `threshold` argument of __init__ (None or a value)
    threshold_coeff,  \* the `threshold_coeff` argument of __init__
    pred_adjust,      \* the `pred_adjust` argument of __init__
    _threshold,       \* self._threshold
    use_amp,          \* self.use_amp
    _network,         \* self._network: "None" before the first _fit
    pc,               \* position inside fit: "idle", "fit", "trained"
    fit_trace,        \* calls made so far by the fit in progress / last fit
    fit_datasets,     \* train_tsdataset of every fit started, in order
    fits,             \* number of fit calls that have returned
    calibCalls,       \* number of invocations of self._threshold_fn
    calibrated,       \* value returned by the last self._threshold_fn call
    anomaly_score,    \* scores of the last predict call
    anomaly_label     \* labels returned by the last predict call

lifeVars == <<init_threshold, threshold_coeff, pred_adjust, _threshold, use_amp,
              _network, pc, fit_trace, fit_datasets, fits, calibCalls,
              calibrated, anomaly_score, anomaly_label>>

VARIABLES
    \* ---- moving_avg / series_decomp (one forward call) ----
    kernel_size,      \* moving_avg.kernel_size
    x,                \* the input window, x[b][l][c], shape [B, L, C]
    padded,           \* x after `paddle.concat([front, x, end], axis=1)`
    moving_mean,      \* what moving_avg.forward returns
    res               \* x - moving_mean

decompVars == <<kernel_size, x, padded, moving_mean, res>>

VARIABLES
    \* ---- _DLinearModule ----
    channels,         \* self.channels (c_in)
    individual,       \* self.individual
    seq_len,          \* self.seq_len (= self.pred_len)
    Linear_Seasonal,  \* a Linear layer, or the LayerList of one per channel
    Linear_Trend,     \* likewise
    X,                \* X["observed_cov_numeric"] of one forward call
    fwd,              \* outcome of that forward call
    pretrain,         \* self.pretrain: "None" or a path
    para_state_dict,  \* what paddle.load(self.pretrain) returns
    model_state_dict, \* the parameters of the module, by name
    num_params_loaded,\* the count init_weight reports
    constructed       \* init_weight has returned

moduleVars == <<channels, individual, seq_len>>
fwdVars == <<Linear_Seasonal, Linear_Trend, X, fwd>>
loadVars == <<pretrain, para_state_dict, model_state_dict, num_params_loaded,
              constructed>>

vars == <<lifeVars, decompVars, moduleVars, fwdVars, loadVars>>

notLife == <<decompVars, moduleVars, fwdVars, loadVars>>
notDecomp == <<lifeVars, moduleVars, fwdVars, loadVars>>
notForward == <<lifeVars, decompVars, moduleVars, loadVars>>
notLoad == <<lifeVars, decompVars, moduleVars, fwdVars>>

----------------------------------------------------------------------------
(* Bounds *)
MaxVal == 1        \* scores and thresholds range over 0..MaxVal
MaxScores == 3     \* a predict call scores 1..MaxScores timesteps
MaxFits == 2       \* fit is called at most MaxFits times

MaxElems == 6      \* an input tensor [B, L, C] has at most MaxElems elements
MaxChannels == 2   \* channel counts 1..MaxChannels of a _DLinearModule
MaxSeqLen == 2     \* window lengths 1..MaxSeqLen of a _DLinearModule
MaxDefects == 2    \* parameters missing or misshaped in a pretrained mapping

Vals == 0..MaxVal
\* training datasets passed to fit
Datasets == {"train_a", "train_b"}

\* Optional[float] = None
None == -1

\* threshold_coeff: float = 1.0, or another multiplier
Coeffs == {1, 2}

----------------------------------------------------------------------------
(* DLinear_AD *)

\* result of `(anomaly_score >= self._threshold) + 0`
AnomalyLabel_Strict(score, thr) ==
    [t \in 1..Len(score) |-> IF score[t] > thr THEN 1 ELSE 0]

AnomalyLabel(score, thr) ==
    [t \in 1..Len(score) |-> IF score[t] >= thr THEN 1 ELSE 0]

\* the default pred_adjust_fn: a normal point between two anomalous points
\* joins them into one anomalous segment
result_adjust(labels) ==
    [t \in 1..Len(labels) |->
        IF labels[t] = 1 THEN 1
        ELSE IF t > 1 /\ t < Len(labels) /\ labels[t-1] = 1 /\ labels[t+1] = 1
             THEN 1 ELSE 0]

\* `if self._threshold is None:` in fit
NeedsCalibration_Always(thr) == TRUE

NeedsCalibration_FromArg(thr) == init_threshold = None

NeedsCalibration(thr) == thr = None

\* _get_threshold: self._threshold = self._threshold_fn(...); return self._threshold
GetThreshold(fnResult) == fnResult

LifeInit ==
    /\ init_threshold \in Vals \cup {None}
    /\ threshold_coeff \in Coeffs
    /\ pred_adjust \in BOOLEAN
    /\ _threshold = init_threshold
    /\ use_amp = FALSE
    /\ _network = "None"
    /\ pc = "idle"
    /\ fit_trace = <<>>
    /\ fit_datasets = <<>>
    /\ fits = 0
    /\ calibCalls = 0
    /\ calibrated = None
    /\ anomaly_score = <<>>
    /\ anomaly_label = <<>>

\* fit, up to the call of self._fit
FitEnter(ds, amp) ==
    /\ pc = "idle"
    /\ fits < MaxFits
    /\ use_amp' = amp
    /\ fit_datasets' = Append(fit_datasets, ds)
    /\ fit_trace' = <<>>
    /\ pc' = "fit"
    /\ UNCHANGED notLife
    /\ UNCHANGED <<init_threshold, threshold_coeff, pred_adjust, _threshold,
                   _network, fits, calibCalls, calibrated, anomaly_score,
                   anomaly_label>>

\* self._fit(train_dataloader, valid_dataloaders, to_static_train) returns
FitTrain ==
    /\ pc = "fit"
    /\ _network' = "trained"
    /\ fit_trace' = Append(fit_trace, "_fit")
    /\ pc' = "trained"
    /\ UNCHANGED notLife
    /\ UNCHANGED <<init_threshold, threshold_coeff, pred_adjust, _threshold,
                   use_amp, fit_datasets, fits, calibCalls, calibrated,
                   anomaly_score, anomaly_label>>

\* `if self._threshold is None:` taken: _get_threshold runs, either branch of
\* `if self.use_amp:` calls self._threshold_fn once; fit returns
FitCalibrate(fnResult) ==
    /\ pc = "trained"
    /\ NeedsCalibration(_threshold)
    /\ calibCalls' = calibCalls + 1
    /\ calibrated' = fnResult
    /\ _threshold' = GetThreshold(fnResult)
    /\ fit_trace' = Append(fit_trace, "_get_threshold")
    /\ fits' = fits + 1
    /\ pc' = "idle"
    /\ UNCHANGED notLife
    /\ UNCHANGED <<init_threshold, threshold_coeff, pred_adjust, use_amp,
                   _network, fit_datasets, anomaly_score, anomaly_label>>

\* `if self._threshold is None:` not taken; fit returns
FitKeepThreshold ==
    /\ pc = "trained"
    /\ ~NeedsCalibration(_threshold)
    /\ fits' = fits + 1
    /\ pc' = "idle"
    /\ UNCHANGED notLife
    /\ UNCHANGED <<init_threshold, threshold_coeff, pred_adjust, _threshold,
                   use_amp, _network, fit_trace, fit_datasets, calibCalls,
                   calibrated, anomaly_score, anomaly_label>>

\* predict on a fitted model; `score` is what _get_anomaly_score returns,
\* concatenated and flattened
Predict(score) ==
    /\ pc = "idle"
    /\ _network # "None"
    /\ _threshold # None
    /\ anomaly_score' = score
    /\ anomaly_label' = AnomalyLabel(score, _threshold)
    /\ UNCHANGED notLife
    /\ UNCHANGED <<init_threshold, threshold_coeff, pred_adjust, _threshold,
                   use_amp, _network, pc, fit_trace, fit_datasets, fits,
                   calibCalls, calibrated>>

LifeIdle ==
    /\ init_threshold = None /\ threshold_coeff = 1 /\ pred_adjust = FALSE
    /\ _threshold = None /\ use_amp = FALSE /\ _network = "None"
    /\ pc = "off" /\ fit_trace = <<>> /\ fit_datasets = <<>> /\ fits = 0
    /\ calibCalls = 0 /\ calibrated = None
    /\ anomaly_score = <<>> /\ anomaly_label = <<>>

----------------------------------------------------------------------------
(* Tensors: a [B, L, C] tensor is a sequence (batch) of sequences (time) of *)
(* sequences (channel) of fixed-point numbers.                              *)

\* one unit is 1/Scale; Scale is a multiple of every kernel size of Kernels
Scale == 3 * 25

\* kernel sizes; _DLinearModule uses 25
Kernels == {3, 5, 25}

\* element values of the inputs
XVals == {0, Scale, 2 * Scale}

Tensors(B, L, C) == [1..B -> [1..L -> [1..C -> XVals]]]

\* the shapes [B, L, C] of the input tensors
Shapes ==
    {s \in (1..MaxElems) \X (1..MaxElems) \X (1..MaxElems) :
        s[1] * s[2] * s[3] <= MaxElems}

\* sum of channel c over the k timesteps of rows that follow timestep `from`
RECURSIVE WindowSum(_, _, _, _)
WindowSum(rows, c, from, k) ==
    IF k = 0 THEN 0 ELSE rows[from + k][c] + WindowSum(rows, c, from, k - 1)

\* x[:, i:i+1, :].tile(repeat_times=[1, n, 1]) for one batch entry
Tile(row, n) == [k \in 1..n |-> row]

----------------------------------------------------------------------------
(* moving_avg *)

\* front / end / concat of moving_avg.forward, for one batch entry xb[l][c]
MovingAvgPad_Zeros(xb, K) ==
    Tile([c \in 1..Len(xb[1]) |-> 0], (K - 1) \div 2) \o xb
        \o Tile(xb[Len(xb)], (K - 1) \div 2)

MovingAvgPad(xb, K) ==
    Tile(xb[1], (K - 1) \div 2) \o xb \o Tile(xb[Len(xb)], (K - 1) \div 2)

\* paddle.nn.AvgPool1D(kernel_size=K, stride=stride, padding=0) along the
\* time axis of one batch entry pb[l][c]
AvgPool1D(pb, K, stride) ==
    [t \in 1..((Len(pb) - K) \div stride + 1) |->
        [c \in 1..Len(pb[1]) |->
            WindowSum(pb, c, (t - 1) * stride, K) \div K]]

\* moving_avg.forward
MovingAvgForward(xx, K, stride) ==
    [b \in 1..Len(xx) |-> AvgPool1D(MovingAvgPad(xx[b], K), K, stride)]

----------------------------------------------------------------------------
(* series_decomp *)

\* `res = x - moving_mean`
Residual_Swapped(xx, mm) ==
    [b \in 1..Len(xx) |-> [l \in 1..Len(xx[b]) |->
        [c \in 1..Len(xx[b][l]) |-> mm[b][l][c] - xx[b][l][c]]]]

Residual(xx, mm) ==
    [b \in 1..Len(xx) |-> [l \in 1..Len(xx[b]) |->
        [c \in 1..Len(xx[b][l]) |-> xx[b][l][c] - mm[b][l][c]]]]

DecompInit ==
    /\ kernel_size \in Kernels
    /\ x \in UNION {Tensors(s[1], s[2], s[3]) : s \in Shapes}
    /\ padded = <<>>
    /\ moving_mean = <<>>
    /\ res = <<>>

DecompIdle ==
    /\ kernel_size = 0 /\ x = <<>> /\ padded = <<>>
    /\ moving_mean = <<>> /\ res = <<>>

\* series_decomp.forward with self.moving_avg = moving_avg(kernel_size, stride=1)
SeriesDecompForward ==
    /\ x # <<>>
    /\ moving_mean = <<>>
    /\ padded' = [b \in 1..Len(x) |-> MovingAvgPad(x[b], kernel_size)]
    /\ moving_mean' = MovingAvgForward(x, kernel_size, 1)
    /\ res' = Residual(x, moving_mean')
    /\ UNCHANGED <<kernel_size, x>>
    /\ UNCHANGED notDecomp

----------------------------------------------------------------------------
(* _DLinearModule *)

\* `kernel_size = 25` in _DLinearModule.__init__
DLinearKernelSize == 25

\* element values of the inputs of forward
FVals == {0, Scale}

\* paddle.nn.Linear(in_features=L, out_features=L): y = v W + b
Linear(layer, v) ==
    LET RECURSIVE Dot(_, _)
        Dot(o, i) == IF i = 0 THEN 0 ELSE v[i] * layer.weight[i][o] + Dot(o, i - 1)
    IN  [o \in 1..Len(layer.bias) |-> Dot(o, Len(v)) + layer.bias[o]]

\* Linear layers the parameters are drawn from
EyeLayer(L) ==
    [weight |-> [i \in 1..L |-> [o \in 1..L |-> IF i = o THEN 1 ELSE 0]],
     bias |-> [o \in 1..L |-> 0]]
OnesLayer(L) ==
    [weight |-> [i \in 1..L |-> [o \in 1..L |-> 1]],
     bias |-> [o \in 1..L |-> 0]]
BiasLayer(L) ==
    [weight |-> [i \in 1..L |-> [o \in 1..L |-> 0]],
     bias |-> [o \in 1..L |-> Scale]]

\* (seasonal layer, trend layer) pairs
LayerPairs(L) ==
    {<<EyeLayer(L), EyeLayer(L)>>, <<OnesLayer(L), BiasLayer(L)>>,
     <<BiasLayer(L), OnesLayer(L)>>}

\* tensor.transpose(perm=[0, 2, 1])
Transpose(t) ==
    [b \in 1..Len(t) |-> [i \in 1..Len(t[b][1]) |->
        [j \in 1..Len(t[b]) |-> t[b][j][i]]]]

\* elementwise seasonal_output + trend_output
TensorAdd(t, u) ==
    [b \in 1..Len(t) |-> [i \in 1..Len(t[b]) |->
        [j \in 1..Len(t[b][i]) |-> t[b][i][j] + u[b][i][j]]]]

\* self.Linear_Seasonal[i] / self.Linear_Trend[i] (i counted from 1)
LayerOfChannel_First(layers, i) == layers[1]

LayerOfChannel(layers, i) == layers[i]

\* the `if self.individual:` branch: zeros of shape [B, C_in, pred_len],
\* rows 0..self.channels-1 assigned in the loop
IndividualOutput(layers, init) ==
    [b \in 1..Len(init) |-> [i \in 1..Len(init[b]) |->
        IF i <= channels
        THEN Linear(LayerOfChannel(layers, i), init[b][i])
        ELSE [o \in 1..seq_len |-> 0]]]

\* the `else:` branch: one Linear applied along the last axis
SharedOutput(layer, init) ==
    [b \in 1..Len(init) |-> [i \in 1..Len(init[b]) |-> Linear(layer, init[b][i])]]

\* _DLinearModule.forward
ForwardResult(xx) ==
    LET mm == MovingAvgForward(xx, DLinearKernelSize, 1)
        seasonal_init == Transpose(Residual(xx, mm))
        trend_init == Transpose(mm)
        cin == Len(xx[1][1])
    IN  IF individual /\ cin < channels
        THEN \* seasonal_init[:, i, :] with i >= C_in: index out of range
             [status |-> "IndexError", out |-> <<>>, y_true |-> <<>>]
        ELSE LET seasonal_output ==
                    IF individual THEN IndividualOutput(Linear_Seasonal, seasonal_init)
                    ELSE SharedOutput(Linear_Seasonal, seasonal_init)
                 trend_output ==
                    IF individual THEN IndividualOutput(Linear_Trend, trend_init)
                    ELSE SharedOutput(Linear_Trend, trend_init)
             IN  [status |-> "ok",
                  out |-> Transpose(TensorAdd(seasonal_output, trend_output)),
                  y_true |-> xx]

NotCalled == [status |-> "none", out |-> <<>>, y_true |-> <<>>]

\* shapes [B, seq_len, C_in] of the inputs of forward
ForwardShapes(L) ==
    {s \in (1..MaxElems) \X {L} \X (1..MaxChannels) : s[1] * s[2] * s[3] <= MaxElems}

ModuleInit ==
    /\ channels \in 1..MaxChannels
    /\ individual \in BOOLEAN
    /\ seq_len \in 1..MaxSeqLen

ModuleIdle == channels = 0 /\ individual = FALSE /\ seq_len = 0

ForwardInit ==
    /\ ModuleInit
    /\ \E pairs \in [1..channels -> LayerPairs(seq_len)] :
        IF individual
        THEN /\ Linear_Seasonal = [i \in 1..channels |-> pairs[i][1]]
             /\ Linear_Trend = [i \in 1..channels |-> pairs[i][2]]
        ELSE /\ Linear_Seasonal = pairs[1][1]
             /\ Linear_Trend = pairs[1][2]
    /\ X \in UNION {[1..s[1] -> [1..s[2] -> [1..s[3] -> FVals]]] :
                        s \in ForwardShapes(seq_len)}
    /\ fwd = NotCalled

ForwardIdle ==
    /\ Linear_Seasonal = <<>> /\ Linear_Trend = <<>> /\ X = <<>> /\ fwd = NotCalled

\* one call of _DLinearModule.forward
Forward ==
    /\ X # <<>>
    /\ fwd = NotCalled
    /\ fwd' = ForwardResult(X)
    /\ UNCHANGED <<Linear_Seasonal, Linear_Trend, X>>
    /\ UNCHANGED notForward

----------------------------------------------------------------------------
(* _DLinearModule.init_weight *)

\* names of self.state_dict(): layer, index in the LayerList (None when the
\* layer is shared), weight or bias
ParamNames ==
    {[layer |-> ly, index |-> ix, kind |-> kd] :
        ly \in {"Linear_Seasonal", "Linear_Trend"},
        ix \in IF individual THEN 0..(channels - 1) ELSE {None},
        kd \in {"weight", "bias"}}

\* a name no parameter of the module has
ExtraName == [layer |-> "Linear_Extra", index |-> None, kind |-> "weight"]

ParamShape(name) ==
    IF name.kind = "weight" THEN <<seq_len, seq_len>> ELSE <<seq_len>>

\* a shape that differs from the module's
OtherShape(name) ==
    IF name.kind = "weight" THEN <<seq_len + 1, seq_len>> ELSE <<seq_len + 1>>

\* `list(para_state_dict[k].shape) != list(model_state_dict[k].shape)`, negated
ShapeMatches_Always(pre, own) == TRUE

ShapeMatches(pre, own) == pre.shape = own.shape

\* a pretrained mapping: every parameter of the module with its shape, except
\* that those of `missing` are absent and the others of `defects` have
\* another shape; `extra` holds names the module does not have
PretrainedDict(defects, missing, extra) ==
    [k \in ((ParamNames \ missing) \cup extra) |->
        [shape |-> IF k \in defects THEN OtherShape(k) ELSE ParamShape(k),
         value |-> "pretrained"]]

\* the pretrained mappings with at most MaxDefects missing or misshaped
\* parameters
PretrainedDicts ==
    UNION {{PretrainedDict(d, m, e) : m \in SUBSET d, e \in {{}, {ExtraName}}} :
            d \in {dd \in SUBSET ParamNames : Cardinality(dd) <= MaxDefects}}

LoadInit ==
    /\ ModuleInit
    /\ \/ pretrain = "None" /\ para_state_dict = <<>>
       \/ pretrain = "pretrained.pdparams" /\ para_state_dict \in PretrainedDicts
    /\ model_state_dict = [k \in ParamNames |->
                               [shape |-> ParamShape(k), value |-> "initialized"]]
    /\ num_params_loaded = None
    /\ constructed = FALSE

LoadIdle ==
    /\ pretrain = "None" /\ para_state_dict = <<>> /\ model_state_dict = <<>>
    /\ num_params_loaded = None /\ constructed = FALSE

\* the loop of init_weight over model_state_dict.keys()
LoadedDict(own, pre) ==
    [k \in DOMAIN own |->
        IF k \notin DOMAIN pre THEN own[k]
        ELSE IF ~ShapeMatches(pre[k], own[k]) THEN own[k]
        ELSE pre[k]]

NumLoaded(own, pre) ==
    Cardinality({k \in DOMAIN own :
                    k \in DOMAIN pre /\ ShapeMatches(pre[k], own[k])})

\* init_weight, `if self.pretrain:` taken
InitWeightPretrained ==
    /\ model_state_dict # <<>>
    /\ ~constructed
    /\ pretrain # "None"
    /\ model_state_dict' = LoadedDict(model_state_dict, para_state_dict)
    /\ num_params_loaded' = NumLoaded(model_state_dict, para_state_dict)
    /\ constructed' = TRUE
    /\ UNCHANGED <<pretrain, para_state_dict>>
    /\ UNCHANGED notLoad

\* init_weight, `else:` taken: th_linear_fill on every Linear sublayer
InitWeightFill ==
    /\ model_state_dict # <<>>
    /\ ~constructed
    /\ pretrain = "None"
    /\ model_state_dict' = [k \in DOMAIN model_state_dict |->
                                [shape |-> model_state_dict[k].shape,
                                 value |-> "th_linear_fill"]]
    /\ constructed' = TRUE
    /\ UNCHANGED <<pretrain, para_state_dict, num_params_loaded>>
    /\ UNCHANGED notLoad

ScoreSeqs == UNION {[1..n -> Vals] : n \in 1..MaxScores}

Init == LifeInit /\ DecompIdle /\ ModuleIdle /\ ForwardIdle /\ LoadIdle

Next ==
    \/ \E ds \in Datasets, amp \in BOOLEAN : FitEnter(ds, amp)
    \/ FitTrain
    \/ \E v \in Vals : FitCalibrate(v)
    \/ FitKeepThreshold
    \/ \E score \in ScoreSeqs : Predict(score)

Spec == Init /\ [][Next]_vars

InitDecomp == DecompInit /\ LifeIdle /\ ModuleIdle /\ ForwardIdle /\ LoadIdle

NextDecomp == SeriesDecompForward

SpecDecomp == InitDecomp /\ [][NextDecomp]_vars

InitForward == ForwardInit /\ LifeIdle /\ DecompIdle /\ LoadIdle

NextForward == Forward

SpecForward == InitForward /\ [][NextForward]_vars

InitLoad == LoadInit /\ LifeIdle /\ DecompIdle /\ ForwardIdle

NextLoad == InitWeightPretrained \/ InitWeightFill

SpecLoad == InitLoad /\ [][NextLoad]_vars

----------------------------------------------------------------------------
(* Properties of DLinear_AD (Spec) *)

\* a predict call has returned
Predicted == anomaly_score # <<>>

\* a fit call has returned and no call is in progress
FitReturned == pc = "idle" /\ fits >= 1

\* C1: predict returns one 0/1 label per score, in the order of the scores,
\* and the label of timestep t is 1 exactly when score[t] >= threshold
C1_LabelIsScoreAtLeastThreshold ==
    Predicted =>
        /\ Len(anomaly_label) = Len(anomaly_score)
        /\ \A t \in 1..Len(anomaly_score) :
            /\ anomaly_label[t] \in {0, 1}
            /\ anomaly_label[t] = 1 <=> anomaly_score[t] >= _threshold

\* a prediction with a score equal to the threshold (labelled 1) and a score
\* below it (labelled 0)
C1_Witness ==
    /\ Predicted
    /\ \E t \in 1..Len(anomaly_score) :
        anomaly_score[t] = _threshold /\ anomaly_label[t] = 1
    /\ \E t \in 1..Len(anomaly_score) :
        anomaly_score[t] < _threshold /\ anomaly_label[t] = 0

\* C2: when fit returns, a supplied threshold is still the threshold and the
\* calibration function was never invoked; without a supplied threshold the
\* calibration function was invoked exactly once, after the training loop of
\* that fit had returned, and its result is the threshold
C2_CalibrateOnceAfterTraining ==
    /\ init_threshold # None =>
        /\ calibCalls = 0
        /\ _threshold = init_threshold
    /\ (init_threshold = None /\ FitReturned) =>
        /\ calibCalls = 1
        /\ _threshold = calibrated
    /\ (init_threshold = None /\ FitReturned /\ fits = 1) =>
        fit_trace = <<"_fit", "_get_threshold">>
    /\ (init_threshold = None /\ calibCalls = 0) => _threshold = None

\* the first fit of a model without a supplied threshold has returned
C2_Witness ==
    /\ FitReturned
    /\ fits = 1
    /\ init_threshold = None
    /\ fit_trace = <<"_fit", "_get_threshold">>
    /\ _threshold = calibrated
    /\ _threshold # None

\* C3: for a model fitted without a supplied threshold, predict compares the
\* scores against the calibration result multiplied by threshold_coeff
C3_CoeffScalesThreshold ==
    (Predicted /\ init_threshold = None) =>
        \A t \in 1..Len(anomaly_score) :
            anomaly_label[t] = 1 <=>
                anomaly_score[t] >= calibrated * threshold_coeff

\* C4: with pred_adjust the labels of predict are the adjusted raw labels,
\* without it they are the raw labels
C4_AdjustGatedByPredAdjust ==
    Predicted =>
        LET raw == [t \in 1..Len(anomaly_score) |->
                        IF anomaly_score[t] >= _threshold THEN 1 ELSE 0]
        IN  anomaly_label = IF pred_adjust THEN result_adjust(raw) ELSE raw

\* C10: without a supplied threshold, the calibration function is invoked and
\* the threshold changes only in the first fit, after its training loop:
\* neither predict nor a later fit changes the threshold
C10_CalibrationOnlyInFirstFit ==
    [][init_threshold = None =>
        /\ (calibCalls' # calibCalls \/ _threshold' # _threshold) =>
                (fits = 0 /\ pc = "trained")
        /\ (fits >= 1 /\ fits' > fits) =>
                (_threshold' = _threshold /\ calibrated' = calibrated)]_vars

\* a second fit on other training data has returned, predict has run, and
\* the threshold is the one the first fit calibrated
C10_Witness ==
    /\ init_threshold = None
    /\ FitReturned
    /\ fits >= 2
    /\ fit_datasets[1] # fit_datasets[2]
    /\ Predicted
    /\ calibCalls = 1
    /\ _threshold = calibrated

----------------------------------------------------------------------------
(* Properties of moving_avg and series_decomp (SpecDecomp) *)

\* series_decomp.forward has returned
Decomposed == moving_mean # <<>>

SameShape(t, u) ==
    /\ Len(t) = Len(u)
    /\ \A b \in 1..Len(u) :
        /\ Len(t[b]) = Len(u[b])
        /\ \A l \in 1..Len(u[b]) : Len(t[b][l]) = Len(u[b][l])

Clamp(i, lo, hi) == IF i < lo THEN lo ELSE IF i > hi THEN hi ELSE i

\* kernel_size times the centred mean of channel c of xb around timestep l,
\* the timesteps before the first and after the last counting as the first
\* and the last
RECURSIVE CentredSum(_, _, _, _, _)
CentredSum(xb, c, l, h, d) ==
    IF d > h THEN 0
    ELSE xb[Clamp(l + d, 1, Len(xb))][c] + CentredSum(xb, c, l, h, d + 1)

\* f(1) + ... + f(n)
RECURSIVE SumOver(_, _)
SumOver(f(_), n) == IF n = 0 THEN 0 ELSE f(n) + SumOver(f, n - 1)

\* C5: series_decomp returns (seasonal, trend) of the shape of x, trend is
\* the moving average of x, and seasonal + trend = x at every position
C5_SeasonalPlusTrendIsInput ==
    Decomposed =>
        /\ SameShape(res, x)
        /\ SameShape(moving_mean, x)
        /\ \A b \in 1..Len(x) : \A l \in 1..Len(x[b]) : \A c \in 1..Len(x[b][l]) :
            /\ res[b][l][c] + moving_mean[b][l][c] = x[b][l][c]
            /\ moving_mean[b][l][c] * kernel_size =
                 CentredSum(x[b], c, l, (kernel_size - 1) \div 2,
                            -((kernel_size - 1) \div 2))

\* a decomposition with a non-zero seasonal part and a non-zero trend
C5_Witness ==
    /\ Decomposed
    /\ \E b \in 1..Len(x) : \E l \in 1..Len(x[b]) : \E c \in 1..Len(x[b][l]) :
        /\ res[b][l][c] # 0
        /\ moving_mean[b][l][c] # 0
        /\ moving_mean[b][l][c] # x[b][l][c]

ConstantChannel(xb, c) == \A l \in 1..Len(xb) : xb[l][c] = xb[1][c]

\* C6: with an odd kernel size and stride 1 the smoother pads with
\* (kernel_size-1)/2 copies of the first and of the last timestep, returns
\* L timesteps, and leaves a constant channel unchanged
C6_PadReplicatesAndKeepsConstants ==
    Decomposed =>
        \A b \in 1..Len(x) :
            LET L == Len(x[b])
                h == (kernel_size - 1) \div 2
            IN  /\ Len(padded[b]) = L + kernel_size - 1
                /\ \A k \in 1..h : padded[b][k] = x[b][1]
                /\ \A l \in 1..L : padded[b][h + l] = x[b][l]
                /\ \A k \in 1..h : padded[b][h + L + k] = x[b][L]
                /\ Len(moving_mean[b]) = L
                /\ \A c \in 1..Len(x[b][1]) :
                    ConstantChannel(x[b], c) =>
                        \A l \in 1..L : moving_mean[b][l][c] = x[b][l][c]

\* a window shorter than the kernel with a constant non-zero channel, and a
\* window at least as long as the kernel with one
C6_Witness ==
    /\ Decomposed
    /\ \E b \in 1..Len(x) : \E c \in 1..Len(x[b][1]) :
        /\ Len(x[b]) > 1
        /\ Len(x[b]) < kernel_size
        /\ x[b][1][c] # 0
        /\ ConstantChannel(x[b], c)
        /\ moving_mean[b][Len(x[b])][c] = x[b][1][c]

\* the same for a window at least as long as the kernel
C6_WitnessLongWindow ==
    /\ Decomposed
    /\ \E b \in 1..Len(x) : \E c \in 1..Len(x[b][1]) :
        /\ Len(x[b]) >= kernel_size
        /\ x[b][1][c] # 0
        /\ ConstantChannel(x[b], c)

----------------------------------------------------------------------------
(* Properties of _DLinearModule.forward (SpecForward) *)

\* forward has been called
Forwarded == fwd.status # "none"

\* the series of channel i in batch entry xb[l][c]
ChannelSeries(xb, i) == [l \in 1..Len(xb) |-> xb[l][i]]

\* the layers applied to channel i
SeasonalOf(i) == IF individual THEN Linear_Seasonal[i] ELSE Linear_Seasonal
TrendOf(i) == IF individual THEN Linear_Trend[i] ELSE Linear_Trend

\* the reconstruction of one series s by one (seasonal, trend) pair of
\* layers: a function of that series and of those two layers only
SeriesOutput(seasonal, trend, s) ==
    LET L == Len(s)
        h == (DLinearKernelSize - 1) \div 2
        rows == [l \in 1..L |-> <<s[l]>>]
        t == [l \in 1..L |-> CentredSum(rows, 1, l, h, -h) \div DLinearKernelSize]
        r == [l \in 1..L |-> s[l] - t[l]]
    IN  [o \in 1..L |->
            SumOver(LAMBDA i : r[i] * seasonal.weight[i][o], L) + seasonal.bias[o]
          + SumOver(LAMBDA i : t[i] * trend.weight[i][o], L) + trend.bias[o]]

\* C7: output channel i is a function of input channel i and of the layers
\* of channel i alone; with shared layers, channels with equal input series
\* have equal output series
C7_ChannelDependsOnOwnInputAndWeights ==
    (Forwarded /\ fwd.status = "ok") =>
        \A b \in 1..Len(X) :
            LET cin == Len(X[b][1])
                own == IF individual THEN 1..channels ELSE 1..cin
            IN  /\ \A i \in own :
                    ChannelSeries(fwd.out[b], i) =
                        SeriesOutput(SeasonalOf(i), TrendOf(i), ChannelSeries(X[b], i))
                /\ ~individual =>
                    \A i, k \in 1..cin :
                        ChannelSeries(X[b], i) = ChannelSeries(X[b], k) =>
                            ChannelSeries(fwd.out[b], i) = ChannelSeries(fwd.out[b], k)

\* a forward call with per-channel layers that differ between two channels
\* carrying the same non-zero input series, and with different outputs
C7_Witness ==
    /\ Forwarded
    /\ fwd.status = "ok"
    /\ individual
    /\ channels >= 2
    /\ Len(X[1][1]) = channels
    /\ Linear_Seasonal[1] # Linear_Seasonal[2]
    /\ ChannelSeries(X[1], 1) = ChannelSeries(X[1], 2)
    /\ ChannelSeries(fwd.out[1], 1) # ChannelSeries(fwd.out[1], 2)

\* a forward call with shared layers and two channels of equal non-zero input
C7_WitnessShared ==
    /\ Forwarded
    /\ fwd.status = "ok"
    /\ ~individual
    /\ Len(X[1][1]) >= 2
    /\ ChannelSeries(X[1], 1) = ChannelSeries(X[1], 2)
    /\ \E l \in 1..Len(X[1]) : X[1][l][1] # 0

\* C9: a forward call whose input has another channel count than the module
\* was constructed with fails with a DimensionError
C9_ChannelMismatchIsDimensionError ==
    (Forwarded /\ Len(X[1][1]) # channels) => fwd.status = "DimensionError"

----------------------------------------------------------------------------
(* Properties of _DLinearModule.init_weight (SpecLoad) *)

Matched(k) ==
    /\ k \in DOMAIN para_state_dict
    /\ para_state_dict[k].shape = ParamShape(k)

\* C8: with pretrained parameters, init_weight returns; a parameter whose
\* name is in the mapping with the same shape has the pretrained value, any
\* other keeps its initialized value, and the reported count is the number
\* of matching parameters (total - 1 when exactly one name is missing)
C8_BestEffortLoad ==
    (constructed /\ pretrain # "None") =>
        /\ DOMAIN model_state_dict = ParamNames
        /\ \A k \in ParamNames :
            /\ Matched(k) => model_state_dict[k] = para_state_dict[k]
            /\ ~Matched(k) =>
                model_state_dict[k] = [shape |-> ParamShape(k), value |-> "initialized"]
        /\ num_params_loaded = Cardinality({k \in ParamNames : Matched(k)})
        /\ (/\ Cardinality(ParamNames \ DOMAIN para_state_dict) = 1
            /\ \A k \in ParamNames \cap DOMAIN para_state_dict : Matched(k))
            => num_params_loaded = Cardinality(ParamNames) - 1

\* a load from a mapping that misses exactly one name and has one parameter
\* of another shape
C8_Witness ==
    /\ constructed
    /\ pretrain # "None"
    /\ Cardinality(ParamNames \ DOMAIN para_state_dict) = 1
    /\ \E k \in ParamNames \cap DOMAIN para_state_dict :
        /\ ~Matched(k)
        /\ model_state_dict[k].value = "initialized"
    /\ \E k \in ParamNames : Matched(k) /\ model_state_dict[k].value = "pretrained"
    /\ num_params_loaded = Cardinality(ParamNames) - 2

\* a load from a mapping that misses exactly one name and matches otherwise
C8_WitnessOneMissing ==
    /\ constructed
    /\ pretrain # "None"
    /\ Cardinality(ParamNames \ DOMAIN para_state_dict) = 1
    /\ \A k \in ParamNames \cap DOMAIN para_state_dict : Matched(k)
    /\ num_params_loaded = Cardinality(ParamNames) - 1

====
